---- MODULE Spec2Model ----
(***************************************************************************)
(* Model of MDTraj/formats/lammpstrj.py: the LAMMPSTrajectoryFile codec    *)
(* (open, close, read, _read, write, seek, tell) over a line-structured    *)
(* text file.  The file on disk is a sequence of lines; the stream handle  *)
(* is a position in that sequence.                                         *)
(***************************************************************************)
EXTENDS Integers, Sequences, FiniteSets, TLC

(***************************************************************************)
(* Bounds of the model.                                                    *)
(***************************************************************************)
MaxFrames == 3      \* frames in a file on disk
MaxAtoms == 3       \* atoms per frame
MaxNFrames == 2     \* largest n_frames argument of read()
MaxStride == 2      \* largest stride argument of read()
MaxOffset == 2      \* largest |offset| argument of seek()

\* Python's None for an integer argument (n_frames, stride).
None == -1

\* Length of the fixed frame header, in lines.
HeaderLines == 9

Min(a, b) == IF a < b THEN a ELSE b

(***************************************************************************)
(* Lines of text.  k is the shape of the line, v its numeric tokens and    *)
(* bad the 1-based index of a token that is not numeric (0: none).         *)
(*   "item"  an "ITEM: ..." marker line                                    *)
(*   "int"   a line holding one integer (timestep, atom count)             *)
(*   "box"   a line holding two numbers (min, max)                         *)
(*   "atom"  a line holding id, type, x, y, z                              *)
(*   "eof"   what readline() returns at the end of the stream: ''          *)
(***************************************************************************)
Line(k, v, bad) == [k |-> k, v |-> v, bad |-> bad]
ItemLine == Line("item", <<>>, 0)
IntLine(n) == Line("int", <<n>>, 0)
BoxLine(lo, hi) == Line("box", <<lo, hi>>, 0)
AtomLine(id, type, x, y, z) == Line("atom", <<id, type, x, y, z>>, 0)
EofLine == Line("eof", <<>>, 0)

(***************************************************************************)
(* fh.readline(): the line after the first pos lines of the stream, or ''  *)
(* at the end of the stream; the position advances only over real lines.   *)
(***************************************************************************)
readline(f, pos) == IF pos < Len(f) THEN f[pos + 1] ELSE EofLine
advance(f, pos, n) == Min(pos + n, Len(f))

\* int(line): defined when the line is one numeric integer token.
IsInt(l) == l.k = "int" /\ l.bad = 0

\* box[i] = line.split(): a row of two floats; one numeric token broadcasts
\* to both columns, any other shape or a non-numeric token raises ValueError.
IsBoxRow(l) == l.k \in {"box", "int"} /\ l.bad = 0
BoxRow(l) == IF l.k = "box" THEN l.v ELSE <<l.v[1], l.v[1]>>

\* int(temp[0]), int(temp[1]), [float(x) for x in temp[2:5]] all succeed.
IsAtomRecord(l) == l.k = "atom" /\ l.bad = 0

(***************************************************************************)
(* The mutable fields of an instance that a decode touches, as a record:   *)
(*   fh   the state of self._fh: "none" (never opened), "open", "closed"   *)
(*   pos  the number of lines of the file the open handle has consumed     *)
(*   lc   self._line_counter      fi  self._frame_index                    *)
(*   na   self._n_atoms (None until the first atom-count line is parsed)   *)
(***************************************************************************)
Fields(h, p, l, i, n) == [fh |-> h, pos |-> p, lc |-> l, fi |-> i, na |-> n]

\* The outcome of one _read(): out is "ok" or the exception raised, st the
\* fields afterwards, xyz and box the decoded frame, line the line number an
\* IOError's message carries.
Decoded(st, xyz, box) == [out |-> "ok", st |-> st, xyz |-> xyz, box |-> box, line |-> None]
Raised(exc, st, line) == [out |-> exc, st |-> st, xyz |-> <<>>, box |-> <<>>, line |-> line]

\* xyz[atom_index - 1] = ...: numpy accepts an index in -n..n-1 and counts a
\* negative one from the end; any other index raises IndexError.
IndexOk(idx, n) == -n <= idx /\ idx < n
\* Slot_off_by_one is the faulty variant xyz[atom_index].
Slot_off_by_one(idx, n) == ((idx + 1) % n) + 1
Slot(idx, n) == IF idx < 0 THEN idx + n + 1 ELSE idx + 1

\* Faulty variants of parse_error: one reports the line 1-based, one signals
\* the end of the stream, one counts the failed frame as decoded.
parse_error_counts_frame(st) ==
    Raised("IOError", [st EXCEPT !.pos = st.pos + 1, !.fi = st.fi + 1], st.lc)
parse_error_1based(st) == Raised("IOError", [st EXCEPT !.pos = st.pos + 1], st.lc + 1)
parse_error_as_eof(st) == Raised("EOF", [st EXCEPT !.pos = st.pos + 1], None)
\* raise IOError('lammpstrj parse error on line {:d} of "{:s}". ...'.format(
\*     self._line_counter, self._filename)), the offending line consumed
parse_error(st) == Raised("IOError", [st EXCEPT !.pos = st.pos + 1], st.lc)

(***************************************************************************)
(* The body loop of _read(): k of the n records are decoded so far.        *)
(***************************************************************************)
RECURSIVE body(_, _, _, _, _)
body(f, st, n, k, xyz) ==
    IF k = n THEN Decoded(st, xyz, <<>>)
    ELSE LET line == readline(f, st.pos)
             idx == line.v[1] - 1
         IN  IF line.k = "eof" THEN Raised("EOF", st, None)
             ELSE IF ~IsAtomRecord(line) \/ ~IndexOk(idx, n)
                  THEN parse_error(st)
             ELSE body(f, [st EXCEPT !.pos = st.pos + 1, !.lc = st.lc + 1], n, k + 1,
                       [xyz EXCEPT ![Slot(idx, n)] = <<line.v[3], line.v[4], line.v[5]>>])

(***************************************************************************)
(* _read(): decode one frame.  g is the content of np.empty() memory.      *)
(***************************************************************************)
_read(f, st, g) ==
    LET p == st.pos
        step == readline(f, p + 1)
        natoms == readline(f, p + 3)
        row(a) == readline(f, p + 4 + a)
        at(used) == [st EXCEPT !.pos = advance(f, p, used)]
    IN  IF st.fh # "open" THEN Raised("ValueError", st, None)
        ELSE IF step.k = "eof" THEN Raised("EOF", at(2), None)
        ELSE IF ~IsInt(natoms) THEN Raised("ValueError", at(4), None)
        ELSE LET n == natoms.v[1]
                 hdr(used) == [at(used) EXCEPT !.na = n]
             IN  IF ~IsBoxRow(row(1)) THEN Raised("ValueError", hdr(6), None)
                 ELSE IF ~IsBoxRow(row(2)) THEN Raised("ValueError", hdr(7), None)
                 ELSE IF ~IsBoxRow(row(3)) THEN Raised("ValueError", hdr(8), None)
                 ELSE LET box == [a \in 1..3 |-> BoxRow(row(a))[2] - BoxRow(row(a))[1]]
                          b == body(f, [hdr(HeaderLines) EXCEPT !.lc = st.lc + HeaderLines],
                                    n, 0, [i \in 1..n |-> <<g, g, g>>])
                      IN  IF b.out = "ok"
                          THEN Decoded([b.st EXCEPT !.fi = st.fi + 1], b.xyz, box)
                          ELSE b

(***************************************************************************)
(* read(n_frames, stride, atom_indices).                                   *)
(* The atom_indices argument is a record: some = FALSE stands for None,    *)
(* otherwise idx is the sequence of 0-based indices.                       *)
(***************************************************************************)
NoIndices == [some |-> FALSE, idx |-> <<>>]
Indices(seq) == [some |-> TRUE, idx |-> seq]

\* The outcome of a call: out is "ok" or the exception raised, st the
\* fields afterwards, val the value returned, line as for _read().
Returned(st, val) == [out |-> "ok", st |-> st, val |-> val, line |-> None]
Failed(r) == [out |-> r.out, st |-> r.st, val |-> <<>>, line |-> r.line]

\* A faulty variant of discard that lets _EOF out of the inner loop.
RECURSIVE discard_eof_raises(_, _, _, _)
discard_eof_raises(f, st, j, g) ==
    IF j <= 0 THEN Returned(st, <<>>)
    ELSE LET r == _read(f, st, g)
         IN  IF r.out # "ok" THEN Failed(r) ELSE discard_eof_raises(f, r.st, j - 1, g)

\* The inner loop: decode and throw away j frames; _EOF ends the loop.
RECURSIVE discard(_, _, _, _)
discard(f, st, j, g) ==
    IF j <= 0 THEN Returned(st, <<>>)
    ELSE LET r == _read(f, st, g)
         IN  IF r.out = "EOF" THEN Returned(r.st, <<>>)
             ELSE IF r.out # "ok" THEN Failed(r)
             ELSE discard(f, r.st, j - 1, g)

\* coord[atom_indices, :]
take(xyz, ai) == IF ai.some THEN [i \in 1..Len(ai.idx) |-> xyz[Slot(ai.idx[i], Len(xyz))]]
                 ELSE xyz
takeOk(xyz, ai) == ai.some => \A i \in 1..Len(ai.idx) : IndexOk(ai.idx[i], Len(xyz))

\* A faulty variant of frames that does not discard after the last frame it
\* keeps.
RECURSIVE frames_stop_at_last_kept(_, _, _, _, _, _, _)
frames_stop_at_last_kept(f, st, left, stride, ai, kept, g) ==
    IF left = 0 THEN Returned(st, kept)
    ELSE LET r == _read(f, st, g)
         IN  IF r.out = "EOF" THEN Returned(r.st, kept)
             ELSE IF r.out # "ok" THEN Failed(r)
             ELSE IF ~takeOk(r.xyz, ai) THEN Failed(Raised("IndexError", r.st, None))
             ELSE LET d == discard(f, r.st, IF left = 1 THEN 0 ELSE stride - 1, g)
                  IN  IF d.out # "ok" THEN d
                      ELSE frames_stop_at_last_kept(f, d.st,
                               IF left = None THEN None ELSE left - 1, stride, ai,
                               Append(kept, [xyz |-> take(r.xyz, ai), box |-> r.box]), g)

\* The outer loop: left is the number of iterations left (None: no limit),
\* kept the frames appended to coords and boxes so far.
RECURSIVE frames(_, _, _, _, _, _, _)
frames(f, st, left, stride, ai, kept, g) ==
    IF left = 0 THEN Returned(st, kept)
    ELSE LET r == _read(f, st, g)
         IN  IF r.out = "EOF" THEN Returned(r.st, kept)
             ELSE IF r.out # "ok" THEN Failed(r)
             ELSE IF ~takeOk(r.xyz, ai) THEN Failed(Raised("IndexError", r.st, None))
             ELSE LET d == discard(f, r.st, stride - 1, g)
                  IN  IF d.out # "ok" THEN d
                      ELSE frames(f, d.st, IF left = None THEN None ELSE left - 1, stride, ai,
                                  Append(kept, [xyz |-> take(r.xyz, ai), box |-> r.box]), g)

\* Faulty variants of read: one iterates n_frames + 1 times, one does not
\* test the mode.
read_one_more(f, m, st, n_frames, stride, ai, g) ==
    IF m # "r" THEN Failed(Raised("ValueError", st, None))
    ELSE frames(f, st, IF n_frames = None THEN None ELSE n_frames + 1,
                IF stride = None THEN 1 ELSE stride, ai, <<>>, g)

read_any_mode(f, m, st, n_frames, stride, ai, g) ==
    frames(f, st, n_frames, IF stride = None THEN 1 ELSE stride, ai, <<>>, g)

read(f, m, st, n_frames, stride, ai, g) ==
    IF m # "r" THEN Failed(Raised("ValueError", st, None))
    ELSE frames(f, st, n_frames, IF stride = None THEN 1 ELSE stride, ai, <<>>, g)

(***************************************************************************)
(* seek(offset, whence)                                                    *)
(***************************************************************************)
\* A faulty variant of replay that ends quietly on _EOF.
RECURSIVE replay_stops_at_eof(_, _, _, _)
replay_stops_at_eof(f, st, count, g) ==
    IF count <= 0 THEN Returned(st, <<>>)
    ELSE LET r == _read(f, st, g)
         IN  IF r.out = "EOF" THEN Returned(r.st, <<>>)
             ELSE IF r.out # "ok" THEN Failed(r)
             ELSE replay_stops_at_eof(f, r.st, count - 1, g)

\* for i in range(count): self._read()
RECURSIVE replay(_, _, _, _)
replay(f, st, count, g) ==
    IF count <= 0 THEN Returned(st, <<>>)
    ELSE LET r == _read(f, st, g)
         IN  IF r.out # "ok" THEN Failed(r) ELSE replay(f, r.st, count - 1, g)

\* self._fh.close(); self._fh = open(self._filename, 'r');
\* self._frame_index = 0; self._line_counter = 0
\* reopen_keeps_position is the faulty variant that resets the counters only.
reopen_keeps_position(st) == [st EXCEPT !.fh = "open", !.fi = 0, !.lc = 0]
reopen(st) == [st EXCEPT !.fh = "open", !.pos = 0, !.fi = 0, !.lc = 0]

\* A faulty variant of seek without the whence = 2 branch.
seek_end_is_invalid(f, m, st, offset, whence, g) ==
    IF m # "r" THEN Failed(Raised("NotImplementedError", st, None))
    ELSE IF whence = 0 /\ offset >= 0
         THEN IF offset >= st.fi THEN replay(f, st, offset - st.fi, g)
              ELSE replay(f, reopen(st), offset, g)
    ELSE IF whence = 1 /\ offset >= 0 THEN replay(f, st, offset, g)
    ELSE IF whence = 1 /\ offset < 0 THEN replay(f, reopen(st), offset + st.fi, g)
    ELSE Failed(Raised("IOError", st, None))

\* A faulty variant of seek that takes a forward START offset as relative.
seek_start_is_relative(f, m, st, offset, whence, g) ==
    IF m # "r" THEN Failed(Raised("NotImplementedError", st, None))
    ELSE IF whence = 0 /\ offset >= 0
         THEN IF offset >= st.fi THEN replay(f, st, offset, g)
              ELSE replay(f, reopen(st), offset, g)
    ELSE IF whence = 1 /\ offset >= 0 THEN replay(f, st, offset, g)
    ELSE IF whence = 1 /\ offset < 0 THEN replay(f, reopen(st), offset + st.fi, g)
    ELSE IF whence = 2 /\ offset <= 0 THEN Failed(Raised("NotImplementedError", st, None))
    ELSE Failed(Raised("IOError", st, None))

seek(f, m, st, offset, whence, g) ==
    IF m # "r" THEN Failed(Raised("NotImplementedError", st, None))
    ELSE IF whence = 0 /\ offset >= 0
         THEN IF offset >= st.fi THEN replay(f, st, offset - st.fi, g)
              ELSE replay(f, reopen(st), offset, g)
    ELSE IF whence = 1 /\ offset >= 0 THEN replay(f, st, offset, g)
    ELSE IF whence = 1 /\ offset < 0 THEN replay(f, reopen(st), offset + st.fi, g)
    ELSE IF whence = 2 /\ offset <= 0 THEN Failed(Raised("NotImplementedError", st, None))
    ELSE Failed(Raised("IOError", st, None))

\* tell()
tell(st) == st.fi

(***************************************************************************)
(* write(xyz, cell_lengths, types, unit_set).  Lengths are fixed-point     *)
(* numbers with four decimals, held as integers (1 stands for 0.0001).     *)
(***************************************************************************)
\* in_units_of(x, 'nanometers', 'angstroms')
in_units_of(x) == 10 * x

\* '{:8.3f}'.format(x): the number rounded to three decimals.
fmt3(x) == ((x + 5) \div 10) * 10

Min3(c) == Min(c[1], Min(c[2], c[3]))

\* The lines write() emits for frame i (0-based) up to the point where it
\* raises, and whether it raises: mins = xyz[0].min(axis=1) holds one entry
\* per atom of frame 0, so mins[a] raises IndexError when there are fewer
\* than a atoms.
frameText(xyz, cell, types, i) ==
    LET n == Len(xyz[i + 1])
        mins == [j \in 1..Len(xyz[1]) |-> Min3(xyz[1][j])]
        head == <<ItemLine, IntLine(i), ItemLine, IntLine(n), ItemLine>>
        rows == [a \in 1..Min(3, Len(mins)) |-> BoxLine(mins[a], mins[a] + cell[1][a])]
        type(j) == IF types.some THEN types.idx[j] ELSE 1
        atoms == [j \in 1..n |-> AtomLine(j, type(j), fmt3(xyz[i + 1][j][1]),
                                          fmt3(xyz[i + 1][j][2]), fmt3(xyz[i + 1][j][3]))]
    IN  IF Len(mins) < 3 THEN [out |-> "IndexError", text |-> head \o rows]
        ELSE [out |-> "ok", text |-> head \o rows \o <<ItemLine>> \o atoms]

\* for i in range(xyz.shape[0]): ... ; text is what the file holds so far.
RECURSIVE encode(_, _, _, _, _)
encode(xyz, cell, types, i, text) ==
    IF i = Len(xyz) THEN [out |-> "ok", text |-> text]
    ELSE LET t == frameText(xyz, cell, types, i)
         IN  IF t.out # "ok" THEN [out |-> t.out, text |-> text \o t.text]
             ELSE encode(xyz, cell, types, i + 1, text \o t.text)

write(f, m, st, xyz, cell_lengths, types, unit_set) ==
    IF m # "w" THEN [out |-> "ValueError", text |-> f]
    ELSE IF unit_set # "real" THEN [out |-> "ValueError", text |-> f]
    ELSE IF Len(xyz) = 0 THEN [out |-> "ok", text |-> f]
    ELSE IF st.fh # "open" THEN [out |-> "ValueError", text |-> f]
    ELSE encode([i \in 1..Len(xyz) |-> [j \in 1..Len(xyz[i]) |->
                    [a \in 1..3 |-> in_units_of(xyz[i][j][a])]]],
                [i \in 1..Len(cell_lengths) |-> [a \in 1..3 |-> in_units_of(cell_lengths[i][a])]],
                types, 0, f)

(***************************************************************************)
(* __init__(filename, mode, force_overwrite) on a path that exists or not. *)
(* The file on disk is a record: exists, and its lines.                    *)
(***************************************************************************)
NoFile == [exists |-> FALSE, lines |-> <<>>]
OnDisk(lines) == [exists |-> TRUE, lines |-> lines]

\* A faulty variant of __init__ that opens a write target whatever
\* force_overwrite says.
init_always_overwrites(d, m, force_overwrite) ==
    LET made(exc, h, o, dd) == [out |-> exc, is_open |-> o, disk |-> dd,
                                st |-> Fields(h, 0, 0, 0, None)]
    IN  IF m = "r"
        THEN IF ~d.exists THEN made("IOError", "none", FALSE, d)
             ELSE made("ok", "open", TRUE, d)
        ELSE IF m = "w" THEN made("ok", "open", TRUE, OnDisk(<<>>))
        ELSE made("ValueError", "none", FALSE, d)

__init__(d, m, force_overwrite) ==
    LET made(exc, h, o, dd) == [out |-> exc, is_open |-> o, disk |-> dd,
                                st |-> Fields(h, 0, 0, 0, None)]
    IN  IF m = "r"
        THEN IF ~d.exists THEN made("IOError", "none", FALSE, d)
             ELSE made("ok", "open", TRUE, d)
        ELSE IF m = "w"
        THEN IF d.exists /\ ~force_overwrite THEN made("IOError", "none", FALSE, d)
             ELSE made("ok", "open", TRUE, OnDisk(<<>>))
        ELSE made("ValueError", "none", FALSE, d)

(***************************************************************************)
(* close(): the handle status and the is-open flag afterwards.             *)
(***************************************************************************)
close(h, o) == IF o THEN [fh |-> "closed", is_open |-> FALSE] ELSE [fh |-> h, is_open |-> o]

(***************************************************************************)
(* The files the model reads.  A file is described by the number F of      *)
(* frames, the number N of atoms per frame, the order perm in which the    *)
(* ids 1..N appear in the body of frame 0 (frame f rotates it by f) and    *)
(* one defect:                                                             *)
(*   "none"                                                                *)
(*   "trunc"  the file ends after its first `at` lines                     *)
(*   "junk"   token `tok` of line `at` is not a number                     *)
(*   "id"     the id of the atom line `at` is replaced by `tok`            *)
(***************************************************************************)
Perms(n) == {p \in [1..n -> 1..n] : \A i, j \in 1..n : p[i] = p[j] => i = j}
Reverse(n) == [i \in 1..n |-> n + 1 - i]
Rot(p, f) == [i \in 1..Len(p) |-> p[((i - 1 + f) % Len(p)) + 1]]

\* The content of frame f (0-based) of a described file.
Coord(f, id) == [a \in 1..3 |-> 1000 * (f + 1) + 10 * id + a]
BoxLo(f, a) == 0 - a
BoxHi(f, a) == 100 * (f + 1) + a
Box(f) == [a \in 1..3 |-> BoxHi(f, a) - BoxLo(f, a)]
Positions(f, n) == [id \in 1..n |-> Coord(f, id)]

FrameLines(f, order) ==
    <<ItemLine, IntLine(f), ItemLine, IntLine(Len(order)), ItemLine,
      BoxLine(BoxLo(f, 1), BoxHi(f, 1)), BoxLine(BoxLo(f, 2), BoxHi(f, 2)),
      BoxLine(BoxLo(f, 3), BoxHi(f, 3)), ItemLine>>
    \o [k \in 1..Len(order) |->
          AtomLine(order[k], 1, Coord(f, order[k])[1], Coord(f, order[k])[2],
                   Coord(f, order[k])[3])]

RECURSIVE Text(_, _)
Text(F, perm) == IF F = 0 THEN <<>> ELSE Text(F - 1, perm) \o FrameLines(F - 1, Rot(perm, F - 1))

NoDefect == [kind |-> "none", at |-> 0, tok |-> 0]
FrameLen(n) == HeaderLines + n
\* the 1-based index of line `at` within its frame
InFrame(at, n) == ((at - 1) % FrameLen(n)) + 1
\* the 0-based frame that line `at` belongs to
FrameOf(at, n) == (at - 1) \div FrameLen(n)

Defects(F, n) ==
    LET all == 1..(F * FrameLen(n))
    IN  {[kind |-> "trunc", at |-> i, tok |-> 0] : i \in {i \in all : i % FrameLen(n) # 0}}
        \cup {[kind |-> "junk", at |-> i, tok |-> 1] : i \in {i \in all : InFrame(i, n) \in {2, 4}}}
        \cup {[kind |-> "junk", at |-> i, tok |-> t] :
                 i \in {i \in all : InFrame(i, n) \in 6..8}, t \in 1..2}
        \cup {[kind |-> "junk", at |-> i, tok |-> t] :
                 i \in {i \in all : InFrame(i, n) > HeaderLines}, t \in 1..5}
        \cup {[kind |-> "id", at |-> i, tok |-> t] :
                 i \in {i \in all : InFrame(i, n) > HeaderLines}, t \in {0 - n, 0, n + 1}}

Describe(F, n, perm, d) == [F |-> F, N |-> n, perm |-> perm, defect |-> d]

Render(in) ==
    LET t == Text(in.F, in.perm)
        d == in.defect
    IN  IF d.kind = "trunc" THEN SubSeq(t, 1, d.at)
        ELSE IF d.kind = "junk" THEN [t EXCEPT ![d.at].bad = d.tok]
        ELSE IF d.kind = "id" THEN [t EXCEPT ![d.at].v[1] = d.tok]
        ELSE t

WellFormed(in) == in.defect.kind = "none"

\* Well-formed files, bodies in descending id order in frame 0.
Files == {Describe(F, n, Reverse(n), NoDefect) : F \in 0..MaxFrames, n \in {0, MaxAtoms}}

\* Well-formed files with the body of frame 0 in every order of the ids.
PermutedFiles ==
    {Describe(F, Len(p), p, NoDefect) : F \in 1..MaxFrames,
        p \in UNION {Perms(n) : n \in 1..MaxAtoms}}

\* Files of MaxAtoms atoms per frame with one defect.
DefectFiles ==
    UNION {{Describe(F, MaxAtoms, Reverse(MaxAtoms), d) : d \in Defects(F, MaxAtoms)} :
              F \in 1..MaxFrames}

\* The file write-mode instances are opened over.
OldFile == Describe(1, 1, Reverse(1), NoDefect)

(***************************************************************************)
(* The arguments the model calls the operations with.                      *)
(***************************************************************************)
NFramesArgs == {None} \cup 0..MaxNFrames
StrideArgs == {None} \cup 1..MaxStride
ReadArgs == {<<n, s, NoIndices>> : n \in NFramesArgs, s \in StrideArgs}
            \cup {<<n, None, Indices(<<0>>)>> : n \in {None, 1}}
OffsetArgs == (0 - MaxOffset)..MaxOffset
WhenceArgs == 0..2
Garbage == {0, 7}

\* The arguments of write(): M frames of n atoms, built from a seed c.
WriteXyz(M, n, c) == [i \in 1..M |-> [j \in 1..n |->
                        <<c + 100 * i + 10 * j, c + 100 * i + 10 * (n - j) + 1, c + 100 * i + 2>>]]
WriteCell(M) == [i \in 1..M |-> <<500 + i, 600 + i, 700 + i>>]
Ones(n) == Indices([j \in 1..n |-> 2])
WriteArgs ==
    {<<WriteXyz(M, n, 0), WriteCell(M), NoIndices, "real">> : M \in 0..MaxNFrames, n \in 1..MaxAtoms}
    \cup {<<WriteXyz(1, MaxAtoms, 4), WriteCell(1), Ones(MaxAtoms), "real">>,
          <<WriteXyz(1, MaxAtoms, 0), WriteCell(1), NoIndices, "metal">>}

(***************************************************************************)
(* The state: the file on disk, one LAMMPSTrajectoryFile instance over it, *)
(* and a record of the last call made on the instance.                     *)
(***************************************************************************)
VARIABLES
    input,          \* the description of the file the run started from
    disk,           \* the file at self._filename
    life,           \* "live", "failed" (__init__ raised) or "gone" (collected)
    mode,           \* self._mode
    is_open,        \* self._is_open
    fh,             \* the state of self._fh
    pos,            \* lines consumed by the open handle
    frame_index,    \* self._frame_index
    line_counter,   \* self._line_counter
    n_atoms,        \* self._n_atoms
    last            \* the last call: its arguments, outcome and value

vars == <<input, disk, life, mode, is_open, fh, pos, frame_index, line_counter, n_atoms, last>>

Cur == Fields(fh, pos, line_counter, frame_index, n_atoms)

Becomes(st) ==
    /\ fh' = st.fh
    /\ pos' = st.pos
    /\ line_counter' = st.lc
    /\ frame_index' = st.fi
    /\ n_atoms' = st.na

\* The record of a call: op and its arguments a, the outcome out, the value
\* val it returned, the line number of its error, the cursor (p) and stream
\* position (at) it started from and, for a read, sk: the target k when the
\* call before it was a seek(k, START) that returned, else None; i and j are
\* the loop variables of a call that is in its loop (j: the inner loop of
\* read), else None.
Call(op, a, r, val) ==
    [op |-> op, a |-> a, out |-> r.out, val |-> val, line |-> r.line,
     p |-> frame_index, at |-> pos, i |-> None, j |-> None,
     sk |-> IF op = "read" /\ last.op = "seek" /\ last.out = "ok" /\ last.a[2] = 0
            THEN last.a[1] ELSE None]

Plain(exc) == [out |-> exc, line |-> None]

\* A truth value as the record of a call holds it.
Bit(b) == IF b THEN 1 ELSE 0

\* The state after LAMMPSTrajectoryFile(filename, m, fo) on disk d.
Start(in, d, m, fo) ==
    LET made == __init__(d, m, fo)
    IN  /\ input = in
        /\ disk = made.disk
        /\ life = IF made.out = "ok" THEN "live" ELSE "failed"
        /\ mode = m
        /\ is_open = made.is_open
        /\ fh = made.st.fh
        /\ pos = made.st.pos
        /\ frame_index = made.st.fi
        /\ line_counter = made.st.lc
        /\ n_atoms = made.st.na
        /\ last = [op |-> "__init__", a |-> <<Bit(d.exists), Bit(fo)>>, out |-> made.out,
                   val |-> <<>>, line |-> None, p |-> 0, at |-> 0, i |-> None, j |-> None,
                   sk |-> None]

Init ==
    \/ \E in \in Files : Start(in, OnDisk(Render(in)), "r", TRUE)
    \/ \E d \in {NoFile, OnDisk(Render(OldFile))}, m \in {"r", "w", "a"}, fo \in BOOLEAN :
         Start(OldFile, d, m, fo)

Read(n_frames, stride, atom_indices, g) ==
    /\ life = "live"
    /\ LET r == read(disk.lines, mode, Cur, n_frames, stride, atom_indices, g)
       IN  /\ Becomes(r.st)
           /\ last' = Call("read", <<n_frames, stride, atom_indices>>, r, r.val)
    /\ UNCHANGED <<input, disk, life, mode, is_open>>

\* The frames a seek decodes are thrown away, and with them the content of
\* their unwritten slots.
Seek(offset, whence) ==
    /\ life = "live"
    /\ LET r == seek(disk.lines, mode, Cur, offset, whence, 0)
       IN  /\ Becomes(r.st)
           /\ last' = Call("seek", <<offset, whence>>, r, <<>>)
    /\ UNCHANGED <<input, disk, life, mode, is_open>>

Tell ==
    /\ life = "live"
    /\ last' = Call("tell", <<>>, Plain("ok"), <<tell(Cur)>>)
    /\ UNCHANGED <<input, disk, life, mode, is_open, fh, pos, frame_index, line_counter, n_atoms>>

Write(xyz, cell_lengths, types, unit_set) ==
    /\ life = "live"
    /\ LET w == write(disk.lines, mode, Cur, xyz, cell_lengths, types, unit_set)
       IN  /\ Len(disk.lines) < FrameLen(MaxAtoms)
           /\ disk' = [disk EXCEPT !.lines = w.text]
           /\ last' = Call("write", <<Len(xyz)>>, Plain(w.out), <<>>)
    /\ UNCHANGED <<input, life, mode, is_open, fh, pos, frame_index, line_counter, n_atoms>>

Close ==
    /\ life = "live"
    /\ fh' = close(fh, is_open).fh
    /\ is_open' = close(fh, is_open).is_open
    /\ last' = Call("close", <<>>, Plain("ok"), <<>>)
    /\ UNCHANGED <<input, disk, life, mode, pos, frame_index, line_counter, n_atoms>>

\* __exit__(*exc_info): the end of a with block
Exit ==
    /\ life = "live"
    /\ fh' = close(fh, is_open).fh
    /\ is_open' = close(fh, is_open).is_open
    /\ last' = Call("__exit__", <<>>, Plain("ok"), <<>>)
    /\ UNCHANGED <<input, disk, life, mode, pos, frame_index, line_counter, n_atoms>>

\* __del__(): the instance is collected, also when __init__ raised
Del ==
    /\ life \in {"live", "failed"}
    /\ life' = "gone"
    /\ fh' = close(fh, is_open).fh
    /\ is_open' = close(fh, is_open).is_open
    /\ last' = Call("__del__", <<>>, Plain("ok"), <<>>)
    /\ UNCHANGED <<input, disk, mode, pos, frame_index, line_counter, n_atoms>>

Next ==
    \/ \E a \in ReadArgs, g \in Garbage : Read(a[1], a[2], a[3], g)
    \/ \E off \in OffsetArgs, wh \in WhenceArgs : Seek(off, wh)
    \/ Tell
    \/ \E a \in WriteArgs : Write(a[1], a[2], a[3], a[4])
    \/ Close
    \/ Exit
    \/ Del

Spec == Init /\ [][Next]_vars

(***************************************************************************)
(* Decoding alone, over files whose bodies come in every order of the ids. *)
(***************************************************************************)
InitDecode == \E in \in PermutedFiles : Start(in, OnDisk(Render(in)), "r", TRUE)

NextDecode ==
    \/ \E n \in {None, 1}, g \in Garbage : Read(n, None, NoIndices, g)
    \/ \E off \in 0..1 : Seek(off, 0)

SpecDecode == InitDecode /\ [][NextDecode]_vars

(***************************************************************************)
(* Reading and seeking over files with one defect.                         *)
(***************************************************************************)
InitDefect ==
    \E in \in DefectFiles \cup {in \in Files : in.N = MaxAtoms} :
        Start(in, OnDisk(Render(in)), "r", TRUE)

NextDefect ==
    \/ \E n \in {None, 1}, s \in {None, MaxStride}, g \in Garbage : Read(n, s, NoIndices, g)
    \/ \E off \in 0..MaxOffset : Seek(off, 0)
    \/ \E off \in {0 - 1, 1} : Seek(off, 1)

SpecDefect == InitDefect /\ [][NextDefect]_vars

(***************************************************************************)
(* Properties.                                                             *)
(***************************************************************************)
\* Frame f of the described file, as read() returns it.
Frame(f) == [xyz |-> Positions(f, input.N), box |-> Box(f)]

\* cnt frames, every s-th one, starting with frame p.
Batch(p, cnt, s) == [i \in 1..cnt |-> Frame(p + (i - 1) * s)]

\* How many of the frames p, p+s, p+2s, ... lie below avail, at most n of them.
KeptCount(p, n, s, avail) ==
    LET c == IF avail > p THEN (avail - p + s - 1) \div s ELSE 0
    IN  IF n = None THEN c ELSE Min(n, c)

StrideOf(s) == IF s = None THEN 1 ELSE s

\* The last call was made on a read-mode instance with its handle open.
OnOpenReader(op) == last.op = op /\ mode = "r" /\ fh = "open"

\* C1: on a read-mode instance over a well-formed file of F frames with the
\* cursor at frame p, read() returns exactly the F - p remaining frames in
\* file order and read(n_frames=k) exactly min(k, F - p) of them, without
\* error also when k exceeds the number of frames remaining.
C1_ReadReturnsRemaining ==
    (OnOpenReader("read") /\ WellFormed(input) /\ last.a[2] = None /\ last.a[3] = NoIndices)
    => /\ last.out = "ok"
       /\ last.val = Batch(last.p, KeptCount(last.p, last.a[1], 1, input.F), 1)

\* A read(n_frames=2) with one frame remaining of three returned that frame.
C1_Witness ==
    /\ OnOpenReader("read") /\ WellFormed(input) /\ input.F = 3 /\ input.N = MaxAtoms
    /\ last.a = <<2, None, NoIndices>> /\ last.p = 2
    /\ last.out = "ok" /\ Len(last.val) = 1

\* C2: on a freshly opened well-formed file of F frames, read(stride=s)
\* returns exactly ceil(F / s) frames, those at file positions 0, s, 2s, ...
\* in that order, without error also when the stream ends while the frames
\* after a kept frame are being discarded.
C2_StrideSelects ==
    (/\ OnOpenReader("read") /\ WellFormed(input) /\ last.p = 0 /\ last.at = 0
     /\ last.a[1] = None /\ last.a[2] # None /\ last.a[3] = NoIndices)
    => /\ last.out = "ok"
       /\ Len(last.val) = (input.F + last.a[2] - 1) \div last.a[2]
       /\ \A i \in 1..Len(last.val) : last.val[i] = Frame((i - 1) * last.a[2])

\* A read(stride=2) of three frames kept frames 0 and 2 and met the end of
\* the stream while discarding.
C2_Witness ==
    /\ OnOpenReader("read") /\ WellFormed(input) /\ input.F = 3 /\ input.N = MaxAtoms
    /\ last.p = 0 /\ last.at = 0 /\ last.a = <<None, 2, NoIndices>>
    /\ last.out = "ok" /\ Len(last.val) = 2

\* C3: for a frame whose N body records carry the ids 1..N in any order, the
\* decoded positions hold at slot i the coordinates of the record with id i,
\* in every frame of the file.
C3_SlotsFollowIds ==
    (OnOpenReader("read") /\ last.out = "ok")
    => \A i \in 1..Len(last.val) : \A id \in 1..input.N :
          last.val[i].xyz[id] = Coord(last.p + i - 1, id)

\* Two frames were read whose body lines come in the id order 3, 1, 2 and
\* 1, 2, 3 (the rotation of the first).
C3_Witness ==
    /\ OnOpenReader("read") /\ input.perm = <<3, 1, 2>> /\ input.F >= 2
    /\ last.p = 0 /\ last.out = "ok" /\ Len(last.val) >= 2
    /\ disk.lines[HeaderLines + 1].v[1] = 3

\* The frames a fresh instance returns from read(n_frames=k).
FreshRead(k) ==
    read(disk.lines, "r", Fields("open", 0, 0, 0, None), k, None, NoIndices, 0).val

\* C4: on an open read-mode instance over a well-formed file of F frames, for
\* every k < F and whatever calls came before, seek(k, START) followed by
\* read(n_frames=1) returns the frame that a fresh instance reading k+1
\* frames sequentially returns last.
C4_SeekThenRead ==
    (/\ OnOpenReader("read") /\ WellFormed(input) /\ last.sk # None /\ last.sk < input.F
     /\ last.a = <<1, None, NoIndices>>)
    => /\ last.out = "ok"
       /\ last.val = <<FreshRead(last.sk + 1)[last.sk + 1]>>

\* A seek(1, START) was followed by a read(n_frames=1) that returned frame 1.
C4_Witness ==
    /\ OnOpenReader("read") /\ WellFormed(input) /\ input.F = 3 /\ input.N = MaxAtoms
    /\ last.sk = 1 /\ last.a = <<1, None, NoIndices>>
    /\ last.out = "ok" /\ last.val = <<Frame(1)>>

\* The call started at a frame boundary: every line before the cursor's
\* frame was consumed by a frame that decoded.
Aligned == last.at = last.p * FrameLen(input.N)

\* The frame and the line within it that the defect of the file lies in.
DefectFrame == FrameOf(input.defect.at, input.N)
DefectLine == InFrame(input.defect.at, input.N)

\* The file ends inside the body of a frame: its header is complete.
TruncatedInBody == input.defect.kind = "trunc" /\ DefectLine >= HeaderLines

\* Token `tok` of header or body line `DefectLine` is not a number, and
\* the line is one of `lines`.
JunkIn(lines) == input.defect.kind = "junk" /\ DefectLine \in lines

BodyLines == (HeaderLines + 1)..FrameLen(input.N)

\* The first frame a read(n_frames=n, stride=s) from frame p does not decode.
ReadUpTo(p, n, s) == IF n = None THEN input.F ELSE p + n * s

\* What a read does on a file whose numbers are parsed on the lines `parsed` of
\* each frame: a stream that ends at a frame boundary or inside a body ends
\* the read with the frames kept so far; a line of `parsed` that holds no
\* number in a frame the read decodes fails the read.
ReadOutcome(parsed) ==
    (OnOpenReader("read") /\ Aligned /\ last.a[3] = NoIndices)
    => LET n == last.a[1]
           s == StrideOf(last.a[2])
           p == last.p
           all == last.out = "ok" /\ last.val = Batch(p, KeptCount(p, n, s, input.F), s)
       IN  /\ WellFormed(input) => all
           /\ TruncatedInBody
                => /\ last.out = "ok"
                   /\ last.val = Batch(p, KeptCount(p, n, s, DefectFrame), s)
           /\ JunkIn(parsed)
                => IF p <= DefectFrame /\ DefectFrame < ReadUpTo(p, n, s)
                   THEN last.out \in {"IOError", "ValueError"} /\ last.val = <<>>
                   ELSE all
           /\ (input.defect.kind = "junk" /\ ~JunkIn(parsed)) => all

\* C5 as claimed: read() returns the frames kept so far when the stream ends
\* at a frame boundary or inside a frame body, and fails, returning no
\* batch, when a frame it decodes (kept or discarded by stride) has an
\* unparseable header number (timestep, atom count, box bounds) or body token.
C5_AsClaimed == ReadOutcome({2, 4, 6, 7, 8} \cup BodyLines)

\* C5, amended: as claimed for the atom count, the box bounds and the body
\* tokens; the timestep value is never parsed, so a frame whose timestep is
\* not a number is decoded and returned like any other.
C5_EndOfStreamVsParseFailure == ReadOutcome({4, 6, 7, 8} \cup BodyLines)

\* A read(stride=MaxStride) failed on a body token of a frame it was discarding.
C5_Witness ==
    /\ OnOpenReader("read") /\ Aligned /\ JunkIn(BodyLines)
    /\ last.a = <<None, MaxStride, NoIndices>> /\ last.p = 0 /\ DefectFrame = 1
    /\ last.out = "IOError" /\ last.val = <<>>

\* The last call was a seek on an open read-mode instance over a well-formed
\* file of F frames, forward and to a target beyond frame F.
SeekBeyondEnd ==
    /\ OnOpenReader("seek") /\ WellFormed(input)
    /\ \/ last.a[2] = 0 /\ last.a[1] >= last.p /\ last.a[1] > input.F
       \/ last.a[2] = 1 /\ last.a[1] >= 0 /\ last.p + last.a[1] > input.F

\* C6 as claimed: a forward seek whose target lies beyond the last frame
\* returns without raising any error, leaving tell() = F.
C6_AsClaimed == SeekBeyondEnd => (last.out = "ok" /\ tell(Cur) = input.F)

\* C6, amended: such a seek raises the end-of-stream error _EOF (an IOError)
\* to its caller; the cursor is left at tell() = F.
C6_SeekBeyondEndRaises == SeekBeyondEnd => (last.out = "EOF" /\ tell(Cur) = input.F)

\* A seek(2, CURRENT) from frame 2 of 3 raised _EOF and left the cursor at 3.
C6_Witness ==
    /\ SeekBeyondEnd /\ input.F = 3 /\ last.p = 2 /\ last.a = <<2, 1>>
    /\ last.out = "EOF" /\ frame_index = 3

\* C7: the stream handle is released by close() and stays released: in every
\* reachable state the handle is open exactly when the is-open flag is true.
C7_HandleOpenIffFlag == (fh = "open") <=> is_open

\* C8 as claimed: every seek with whence = END fails with the not-implemented
\* signal, decodes no frame and leaves frame_index and the stream position
\* unchanged.
C8_AsClaimed ==
    (last.op = "seek" /\ mode = "r" /\ last.a[2] = 2)
    => /\ last.out = "NotImplementedError"
       /\ frame_index = last.p /\ pos = last.at

\* C8, amended: a seek with whence = END fails with the not-implemented
\* signal when offset <= 0 and with the invalid-argument IOError when
\* offset > 0; either way it decodes no frame and leaves frame_index and the
\* stream position unchanged.
C8_EndSeekRejected ==
    (last.op = "seek" /\ mode = "r" /\ last.a[2] = 2)
    => /\ last.out = IF last.a[1] <= 0 THEN "NotImplementedError" ELSE "IOError"
       /\ last.line = None
       /\ frame_index = last.p /\ pos = last.at

\* A seek(-1, END) after one frame was read failed as not implemented.
C8_Witness ==
    /\ last.op = "seek" /\ mode = "r" /\ last.a = <<0 - 1, 2>> /\ last.p = 1
    /\ fh = "open" /\ last.out = "NotImplementedError" /\ frame_index = 1

\* C9: an instance keeps its mode, and rejects the operations of the other
\* mode with no effect: on a write-mode instance read() fails with a usage
\* error (ValueError) and seek() with the not-implemented signal, on a
\* read-mode instance write() fails with a usage error, and nothing is read
\* from or written to the stream and frame_index is unchanged.
C9_WrongModeRejected ==
    [][/\ mode' = mode
       /\ (mode = "w" /\ last'.op = "read")
            => /\ last'.out = "ValueError"
               /\ UNCHANGED <<disk, fh, pos, frame_index>>
       /\ (mode = "w" /\ last'.op = "seek")
            => /\ last'.out = "NotImplementedError"
               /\ UNCHANGED <<disk, fh, pos, frame_index>>
       /\ (mode = "r" /\ last'.op = "write")
            => /\ last'.out = "ValueError"
               /\ UNCHANGED <<disk, fh, pos, frame_index>>]_vars

\* A read() on a write-mode instance that had written a frame was rejected.
C9_Witness ==
    /\ mode = "w" /\ last.op = "read" /\ last.out = "ValueError"
    /\ Len(disk.lines) >= FrameLen(MaxAtoms) /\ frame_index = 0

\* The last call decoded, on an open read-mode instance, the frame whose body
\* has a line with a coordinate field that is not a number.
DecodedBadCoordinate ==
    /\ input.defect.kind = "junk" /\ DefectLine \in BodyLines /\ input.defect.tok \in 3..5
    /\ LET p == last.p
           target == IF last.a[2] = 0 THEN last.a[1] ELSE p + last.a[1]
       IN  \/ /\ OnOpenReader("read") /\ Aligned
              /\ p <= DefectFrame /\ DefectFrame < ReadUpTo(p, last.a[1], StrideOf(last.a[2]))
           \/ /\ OnOpenReader("seek") /\ last.a[2] \in {0, 1}
              /\ IF target >= p /\ ~(last.a[2] = 1 /\ last.a[1] < 0)
                 THEN Aligned /\ p <= DefectFrame /\ DefectFrame < target
                 ELSE DefectFrame < target

\* C10 as claimed: decoding the frame fails with a ParseFailure whose line
\* number is the 1-based offset of that atom line within its frame.
C10_AsClaimed ==
    DecodedBadCoordinate
    => (last.out = "IOError" /\ last.line = DefectLine - HeaderLines)

\* C10, amended: decoding the frame fails with a ParseFailure (never
\* EndOfStream, never an accepted frame) whose line number is the running
\* line counter: the number of lines of the file before the defective one.
C10_ParseFailureLine ==
    DecodedBadCoordinate
    => (last.out = "IOError" /\ last.line = input.defect.at - 1)

\* A read() failed on the second atom line of the second frame.
C10_Witness ==
    /\ DecodedBadCoordinate /\ OnOpenReader("read") /\ last.p = 0
    /\ DefectFrame = 1 /\ DefectLine = HeaderLines + 2
    /\ last.out = "IOError" /\ last.line = FrameLen(MaxAtoms) + HeaderLines + 1

\* The last call was a read that started at a frame boundary of an open
\* read-mode instance and decoded the frame in which a number that _read
\* parses (atom count, box bounds, body token) is unparseable.
DecodedUnparseable ==
    /\ OnOpenReader("read") /\ Aligned /\ last.a[3] = NoIndices
    /\ JunkIn({4, 6, 7, 8} \cup BodyLines)
    /\ last.p <= DefectFrame
    /\ DefectFrame < ReadUpTo(last.p, last.a[1], StrideOf(last.a[2]))

\* C11: every parse failure, whether caused by an unparseable atom-count or
\* box-bounds number of the header or by an unparseable body token, surfaces
\* as the same error kind (the IOError 'lammpstrj parse error') carrying the
\* running line number and the file name.
C11_ParseFailureHasLineContext ==
    DecodedUnparseable => (last.out = "IOError" /\ last.line # None)

(***************************************************************************)
(* Writing a file and reading it back: a write-mode instance over a new    *)
(* path writes the given frames, is closed and collected, and a second     *)
(* instance is constructed over the same path.                             *)
(***************************************************************************)
\* What the caller holds: M frames of n atoms built from the seed c.
Given(M, n, c) == [F |-> M, N |-> n, perm |-> Reverse(n), defect |-> NoDefect, seed |-> c]
GivenXyz == WriteXyz(input.F, input.N, input.seed)
GivenCell == WriteCell(input.F)

\* LAMMPSTrajectoryFile(filename, m, fo) once the instance before it is gone.
Open(m, fo) ==
    /\ life = "gone"
    /\ LET made == __init__(disk, m, fo)
       IN  /\ disk' = made.disk
           /\ life' = IF made.out = "ok" THEN "live" ELSE "failed"
           /\ mode' = m
           /\ is_open' = made.is_open
           /\ Becomes(made.st)
           /\ last' = [op |-> "__init__", a |-> <<Bit(disk.exists), Bit(fo)>>, out |-> made.out,
                       val |-> <<>>, line |-> None, p |-> 0, at |-> 0, i |-> None, j |-> None,
                   sk |-> None]
    /\ UNCHANGED input

InitRoundTrip ==
    \E M \in 1..MaxNFrames, n \in 1..MaxAtoms, c \in {0, 4} :
        Start(Given(M, n, c), NoFile, "w", FALSE)

NextRoundTrip ==
    \/ Write(GivenXyz, GivenCell, NoIndices, "real")
    \/ Close
    \/ Del
    \/ \E m \in {"r", "w"} : Open(m, TRUE)
    \/ \E n \in {None, 1}, g \in Garbage : Read(n, None, NoIndices, g)

SpecRoundTrip == InitRoundTrip /\ [][NextRoundTrip]_vars

\* What one write() of the given frames produces in a new file.
Written == write(<<>>, "w", Fields("open", 0, 0, 0, None), GivenXyz, GivenCell, NoIndices, "real")

\* The last call was a read() of the whole file by a new read-mode instance
\* over the file that one write() of the given frames, which returned, had
\* produced.
ReadBack ==
    /\ OnOpenReader("read") /\ last.p = 0 /\ last.at = 0
    /\ last.a = <<None, None, NoIndices>>
    /\ Written.out = "ok" /\ disk.lines = Written.text

\* Lengths are held with four decimals: 5 stands for 0.0005, half of the
\* last digit that '{:8.3f}' keeps.
WithinPrecision(x, y) == x - y <= 5 /\ y - x <= 5

\* C12: writing M frames of N atoms with write() and then decoding the
\* written file with read() yields M frames of N atoms in which slot j of
\* frame i holds the coordinates given for atom j of frame i, equal up to
\* the three decimals of the text.
C12_RoundTrip ==
    ReadBack
    => /\ last.out = "ok"
       /\ Len(last.val) = input.F
       /\ \A i \in 1..Len(last.val) :
            /\ Len(last.val[i].xyz) = input.N
            /\ \A j \in 1..input.N, a \in 1..3 :
                 WithinPrecision(last.val[i].xyz[j][a], GivenXyz[i][j][a])

\* The smallest a-coordinate among the atoms of one frame.
RECURSIVE AxisMin(_, _, _)
AxisMin(atoms, a, j) ==
    IF j = Len(atoms) THEN atoms[j][a] ELSE Min(atoms[j][a], AxisMin(atoms, a, j + 1))

\* C13: for every frame i written by one write() call and every axis a, the
\* box-bounds line for axis a in frame i's header has as minimum the smallest
\* a-coordinate among frame i's atoms and as maximum that minimum plus
\* cell_lengths[i][a] (both in the unit of the file), so that decoding frame
\* i gives back the box length of frame i; for every number of frames and
\* every number of atoms >= 1 the write completes.
C13_BoxBoundsPerFrame ==
    [][(mode = "w" /\ fh = "open" /\ disk.lines = <<>> /\ last'.op = "write")
       => /\ last'.out = "ok"
          /\ Len(disk'.lines) = input.F * FrameLen(input.N)
          /\ \A i \in 1..input.F, a \in 1..3 :
               LET lo == in_units_of(AxisMin(GivenXyz[i], a, 1))
               IN  disk'.lines[(i - 1) * FrameLen(input.N) + 5 + a]
                     = BoxLine(lo, lo + in_units_of(GivenCell[i][a]))]_vars

\* C14: on an open read-mode instance over a well-formed file of F frames,
\* for every k with 0 <= k <= F and every cursor position, seek(k, START)
\* returns and leaves tell() = k, the stream at the start of frame k and the
\* line counter at the number of lines before frame k: reached by decoding
\* k - frame_index frames when k >= frame_index, otherwise by reopening the
\* stream, resetting both counters and replaying k frames from the start.
C14_SeekStartReachesTarget ==
    (/\ OnOpenReader("seek") /\ WellFormed(input)
     /\ last.a[2] = 0 /\ 0 <= last.a[1] /\ last.a[1] <= input.F)
    => /\ last.out = "ok"
       /\ tell(Cur) = last.a[1]
       /\ pos = last.a[1] * FrameLen(input.N)
       /\ line_counter = last.a[1] * FrameLen(input.N)

\* A seek(1, START) from the end of a file of three frames rewound to frame 1.
C14_Witness ==
    /\ OnOpenReader("seek") /\ WellFormed(input) /\ input.F = 3 /\ input.N = MaxAtoms
    /\ last.a = <<1, 0>> /\ last.p = 3 /\ last.at = 3 * FrameLen(MaxAtoms)
    /\ last.out = "ok" /\ frame_index = 1 /\ line_counter = FrameLen(MaxAtoms)

\* C15: for every offset < 0, a seek(offset, CURRENT) from cursor position p
\* on a read-mode instance over a well-formed file that returns has rewound
\* to the target p + offset: tell() = p + offset and the stream is at the
\* start of frame p + offset; it never returns with any other cursor.
C15_RelativeRewindReachesTarget ==
    (/\ OnOpenReader("seek") /\ WellFormed(input)
     /\ last.a[2] = 1 /\ last.a[1] < 0 /\ last.out = "ok")
    => /\ tell(Cur) = last.p + last.a[1]
       /\ pos = (last.p + last.a[1]) * FrameLen(input.N)

\* C16: opening fails at open time in exactly three cases: read mode on a
\* path that does not exist (IOError), write mode on an existing path when
\* force_overwrite is false (IOError), and a mode other than 'r' and 'w'
\* (ValueError); the instance then holds no stream handle and its flag is
\* false, so that its teardown closes nothing.  In every other case the
\* instance is open with frame_index = 0 and line_counter = 0.
C16_OpenOutcome ==
    /\ last.op = "__init__"
         => LET exists == last.a[1] = Bit(TRUE)
                force_overwrite == last.a[2] = Bit(TRUE)
                fails == IF mode = "r" THEN ~exists
                         ELSE IF mode = "w" THEN exists /\ ~force_overwrite
                         ELSE TRUE
            IN  IF fails
                THEN /\ last.out = IF mode \in {"r", "w"} THEN "IOError" ELSE "ValueError"
                     /\ life = "failed" /\ fh = "none" /\ ~is_open
                     /\ disk.exists = exists
                ELSE /\ last.out = "ok"
                     /\ life = "live" /\ fh = "open" /\ is_open
                     /\ frame_index = 0 /\ line_counter = 0
    /\ life = "failed" => fh = "none"
    /\ fh = "none" => (~is_open /\ life # "live")

\* The instance whose opening for writing failed on an existing file was
\* collected: __del__ closed nothing and the file is as it was.
C16_Witness ==
    /\ last.op = "__del__" /\ life = "gone" /\ mode = "w"
    /\ fh = "none" /\ ~is_open
    /\ disk = OnDisk(Render(OldFile))

\* The call of this step is a seek that rewinds: it reopens the stream.
Rewinds ==
    /\ last'.op = "seek"
    /\ \/ last'.a[2] = 0 /\ 0 <= last'.a[1] /\ last'.a[1] < frame_index
       \/ last'.a[2] = 1 /\ last'.a[1] < 0

\* C17: a seek(1, CURRENT) is one frame decode: when it succeeds frame_index
\* has advanced by exactly 1 and line_counter by exactly 9 + the atom count
\* of the frame, when it ends in the end of the stream or in a parse failure
\* frame_index is unchanged.  Neither counter ever decreases except in a
\* seek that reopens the stream, which leaves them at the number of frames
\* and of lines decoded since the reopening.  Hence tell() counts the frames
\* decoded: a read() of every frame that returns b frames has advanced
\* frame_index by b.
C17_CursorCountsDecodes ==
    [][LET op == last'.op
           a == last'.a
           ok == last'.out = "ok"
           one == op = "seek" /\ a = <<1, 1>>
           target == IF a[2] = 0 THEN a[1] ELSE frame_index + a[1]
       IN  /\ (one /\ ok)
                => /\ frame_index' = frame_index + 1
                   /\ line_counter' = line_counter + HeaderLines + n_atoms'
           /\ (one /\ ~ok) => frame_index' = frame_index
           /\ (op = "read" /\ a[2] = None /\ ok)
                => frame_index' = frame_index + Len(last'.val)
           /\ ~Rewinds => (frame_index' >= frame_index /\ line_counter' >= line_counter)
           /\ Rewinds
                => /\ frame_index' <= IF target < 0 THEN 0 ELSE target
                   /\ ok => frame_index' = IF target < 0 THEN 0 ELSE target
                   /\ line_counter' >= frame_index' * FrameLen(input.N)
                   /\ ok => line_counter' = frame_index' * FrameLen(input.N)]_vars

\* On a file whose third frame has an unparseable token in its second atom
\* line, a seek(1, CURRENT) from frame 2 failed and left the cursor at 2.
C17_Witness ==
    /\ OnOpenReader("seek") /\ last.a = <<1, 1>> /\ input.F = 3 /\ DefectFrame = 2
    /\ input.defect.kind = "junk" /\ DefectLine = HeaderLines + 2
    /\ last.p = 2 /\ last.out = "IOError" /\ frame_index = 2
    /\ line_counter = 2 * FrameLen(MaxAtoms) + HeaderLines + 1

\* The last call was a read that started at a frame boundary of an open
\* read-mode instance and decoded the frame in which one body record has
\* an id outside 1..atom_count.
DecodedForeignId ==
    /\ OnOpenReader("read") /\ Aligned /\ last.a[3] = NoIndices
    /\ input.defect.kind = "id"
    /\ last.p <= DefectFrame
    /\ DefectFrame < ReadUpTo(last.p, last.a[1], StrideOf(last.a[2]))

\* C18: a body record whose id lies outside [1, atom_count] is never stored
\* into a slot of the positions or types arrays: decoding its frame fails
\* with the parse failure and the read returns no frame.
C18_ForeignIdRejected ==
    DecodedForeignId => (last.out = "IOError" /\ last.val = <<>>)

\* C19: after read(n_frames=k, stride=s) with k >= 1 and s >= 1 from cursor
\* position p of an open read-mode instance over a well-formed file with at
\* least p + k*s frames, tell() = p + k*s and the stream is at the start of
\* frame p + k*s: the s - 1 frames after the last kept frame are decoded and
\* discarded too.
C19_ReadLeavesCursorAfterStride ==
    (/\ OnOpenReader("read") /\ WellFormed(input)
     /\ last.a[1] >= 1 /\ last.a[2] >= 1
     /\ last.p + last.a[1] * last.a[2] <= input.F)
    => /\ last.out = "ok"
       /\ tell(Cur) = last.p + last.a[1] * last.a[2]
       /\ pos = (last.p + last.a[1] * last.a[2]) * FrameLen(input.N)

\* A read(n_frames=1, stride=2) from frame 1 of three frames returned frame 1
\* and left the cursor at 3.
C19_Witness ==
    /\ OnOpenReader("read") /\ WellFormed(input) /\ input.F = 3 /\ input.N = MaxAtoms
    /\ last.a = <<1, 2, NoIndices>> /\ last.p = 1
    /\ last.out = "ok" /\ last.val = <<Frame(1)>> /\ frame_index = 3

(***************************************************************************)
(* The loops of read() and seek(), one decode per step.  While a call is   *)
(* in its loop, last.out is "running", last.i counts the passes made of    *)
(* its loop, last.j those of the inner loop of read() (None outside it)    *)
(* and last.val holds the frames a read has kept.                          *)
(***************************************************************************)
Running(st, val) == [out |-> "running", st |-> st, val |-> val, line |-> None]

\* The outcome r of a step, with the loop variables after it.
InLoop(r, i, j) == [out |-> r.out, st |-> r.st, val |-> r.val, line |-> r.line, i |-> i, j |-> j]
Ended(r) == InLoop(r, None, None)

\* A faulty variant of iterate that goes on after _EOF in the outer loop.
iterate_skips_eof(st, r, n_frames, stride, ai, i, j, kept) ==
    IF j # None
    THEN IF r.out = "EOF" THEN InLoop(Running(r.st, kept), i + 1, None)
         ELSE IF r.out # "ok" THEN Ended(Failed(r))
         ELSE IF j + 1 < stride - 1 THEN InLoop(Running(r.st, kept), i, j + 1)
         ELSE InLoop(Running(r.st, kept), i + 1, None)
    ELSE IF n_frames # None /\ i >= n_frames THEN Ended(Returned(st, kept))
    ELSE IF r.out = "EOF" THEN InLoop(Running(r.st, kept), i + 1, None)
    ELSE IF r.out # "ok" THEN Ended(Failed(r))
    ELSE IF ~takeOk(r.xyz, ai) THEN Ended(Failed(Raised("IndexError", r.st, None)))
    ELSE LET more == Append(kept, [xyz |-> take(r.xyz, ai), box |-> r.box])
         IN  IF stride > 1 THEN InLoop(Running(r.st, more), i, 0)
             ELSE InLoop(Running(r.st, more), i + 1, None)

\* The next step of the loops of read(); r is the outcome of the
\* self._read() that the step makes from the fields st.
\*   inside 'for j in range(stride - 1)': _EOF breaks the inner loop, any
\*     other error ends the call, a decoded frame is thrown away;
\*   at 'for _ in frame_counter': the loop is over after n_frames passes,
\*     _EOF breaks it, any other error ends the call, a decoded frame is
\*     appended and the inner loop entered when stride > 1.
iterate(st, r, n_frames, stride, ai, i, j, kept) ==
    IF j # None
    THEN IF r.out = "EOF" THEN InLoop(Running(r.st, kept), i + 1, None)
         ELSE IF r.out # "ok" THEN Ended(Failed(r))
         ELSE IF j + 1 < stride - 1 THEN InLoop(Running(r.st, kept), i, j + 1)
         ELSE InLoop(Running(r.st, kept), i + 1, None)
    ELSE IF n_frames # None /\ i >= n_frames THEN Ended(Returned(st, kept))
    ELSE IF r.out = "EOF" THEN Ended(Returned(r.st, kept))
    ELSE IF r.out # "ok" THEN Ended(Failed(r))
    ELSE IF ~takeOk(r.xyz, ai) THEN Ended(Failed(Raised("IndexError", r.st, None)))
    ELSE LET more == Append(kept, [xyz |-> take(r.xyz, ai), box |-> r.box])
         IN  IF stride > 1 THEN InLoop(Running(r.st, more), i, 0)
             ELSE InLoop(Running(r.st, more), i + 1, None)

\* The number of frames seek(offset, whence) decodes from cursor p: advance,
\* or absolute after a reopen.
count(p, offset, whence) ==
    IF whence = 0 THEN (IF offset >= p THEN offset - p ELSE offset)
    ELSE IF offset >= 0 THEN offset ELSE offset + p

\* The part of seek() before its loops: the arguments are sorted out and the
\* stream is reopened for a rewind.
plan(m, st, offset, whence) ==
    IF m # "r" THEN Failed(Raised("NotImplementedError", st, None))
    ELSE IF whence = 0 /\ offset >= 0
         THEN IF offset >= st.fi THEN Running(st, <<>>) ELSE Running(reopen(st), <<>>)
    ELSE IF whence = 1 /\ offset >= 0 THEN Running(st, <<>>)
    ELSE IF whence = 1 /\ offset < 0 THEN Running(reopen(st), <<>>)
    ELSE IF whence = 2 /\ offset <= 0 THEN Failed(Raised("NotImplementedError", st, None))
    ELSE Failed(Raised("IOError", st, None))

\* for i in range(n): self._read(): pass i of the loop, or its end; r is
\* the outcome of the self._read() of this pass from the fields st.
decode_next(st, r, i, n) ==
    IF i >= n THEN Ended(Returned(st, <<>>))
    ELSE IF r.out # "ok" THEN Ended(Failed(r))
    ELSE InLoop(Running(r.st, <<>>), i + 1, None)

\* The record of the call after a step that left it as it.
Passed(it) ==
    [last EXCEPT !.out = it.out, !.val = it.val, !.line = it.line, !.i = it.i, !.j = it.j]

ReadBegin(n_frames, stride, atom_indices) ==
    /\ life = "live" /\ last.out # "running"
    /\ last' = [Call("read", <<n_frames, stride, atom_indices>>,
                     IF mode = "r" THEN Running(Cur, <<>>) ELSE Plain("ValueError"), <<>>)
                  EXCEPT !.i = IF mode = "r" THEN 0 ELSE None]
    /\ UNCHANGED <<input, disk, life, mode, is_open, fh, pos, frame_index, line_counter, n_atoms>>

ReadStep(g) ==
    /\ last.op = "read" /\ last.out = "running"
    /\ \E r \in {_read(disk.lines, Cur, g)} :
          \E it \in {iterate(Cur, r, last.a[1], StrideOf(last.a[2]), last.a[3],
                             last.i, last.j, last.val)} :
             Becomes(it.st) /\ last' = Passed(it)
    /\ UNCHANGED <<input, disk, life, mode, is_open>>

SeekBegin(offset, whence) ==
    /\ life = "live" /\ last.out # "running"
    /\ \E r \in {plan(mode, Cur, offset, whence)} :
          /\ Becomes(r.st)
          /\ last' = [Call("seek", <<offset, whence>>, r, <<>>)
                        EXCEPT !.i = IF r.out = "running" THEN 0 ELSE None]
    /\ UNCHANGED <<input, disk, life, mode, is_open>>

SeekStep ==
    /\ last.op = "seek" /\ last.out = "running"
    /\ \E r \in {_read(disk.lines, Cur, 0)} :
          \E it \in {decode_next(Cur, r, last.i, count(last.p, last.a[1], last.a[2]))} :
             Becomes(it.st) /\ last' = Passed(it)
    /\ UNCHANGED <<input, disk, life, mode, is_open>>

NextLoop ==
    \/ \E s \in {None, MaxStride} : ReadBegin(None, s, NoIndices)
    \/ ReadBegin(MaxNFrames, None, NoIndices)
    \/ \E g \in Garbage : ReadStep(g)
    \/ \E off \in {0, MaxOffset} : SeekBegin(off, 0)
    \/ \E off \in {0 - 1, 1} : SeekBegin(off, 1)
    \/ SeekStep

\* Well-formed files, and files with one defect in their last frame: the
\* file ends at any line of it, the first token of a line is not a number,
\* or a record has the id 0.
LoopFiles ==
    {in \in Files : in.N = MaxAtoms}
    \cup {in \in DefectFiles : /\ in.F = MaxFrames - 1
                               /\ FrameOf(in.defect.at, in.N) = in.F - 1
                               /\ in.defect.tok \in {0, 1}}

InitLoop == \E in \in LoopFiles : Start(in, OnDisk(Render(in)), "r", TRUE)

\* A call that has begun goes on: its loop takes its next step.
SpecLoop ==
    /\ InitLoop /\ [][NextLoop]_vars
    /\ WF_vars(\E g \in Garbage : ReadStep(g))
    /\ WF_vars(SeekStep)

\* The frame a seek is to reach.
SeekTarget == IF last.a[2] = 0 THEN last.a[1] ELSE last.p + last.a[1]

\* C20: every call runs to completion or fails, on every finite stream,
\* well-formed or not: each step of the loops of read() that does not end
\* the call has consumed at least one more line of the stream, or has left
\* the inner loop at the end of the stream for a pass of the outer loop that
\* ends the call; a seek makes at most as many passes, one frame decode
\* each, as its target; and every call that is in its loop eventually
\* returns or raises.
C20_CallsTerminate ==
    /\ [][(last.out = "running" /\ last'.out = "running")
            => /\ pos' <= Len(disk.lines)
               /\ last.op = "read"
                    => \/ pos' > pos
                       \/ last.j # None /\ last'.j = None /\ pos' = Len(disk.lines)
               /\ last.op = "seek" => (pos' > pos /\ last'.i = last.i + 1)]_vars
    /\ [](IF last.op = "seek" /\ last.out = "running"
          THEN last.i <= SeekTarget \/ last.i = 0
          ELSE TRUE)
    /\ (last.out = "running") ~> (last.out # "running")

\* A read() without n_frames went three times through its loop over a file
\* of three frames and returned them when it met the end of the stream.
C20_Witness ==
    /\ OnOpenReader("read") /\ WellFormed(input) /\ input.F = 3
    /\ last.a = <<None, None, NoIndices>> /\ last.p = 0
    /\ last.out = "ok" /\ Len(last.val) = 3 /\ pos = Len(disk.lines)

====
